---- MODULE Spec2Model ----
(***************************************************************************)
(* The tilt/azimuth estimation engine of utils/base_model.py (run_for_ui   *)
(* and its helpers) together with the coordinate and azimuth handling of   *)
(* app.py that feeds it.                                                   *)
(*                                                                         *)
(* Number representation.  The program computes with IEEE doubles; here    *)
(* every real quantity is a fixed-point integer:                           *)
(*   - angles (tilt, azimuth, zenith, latitude, longitude) in units of     *)
(*     1/AngleScale degree, so that a user tilt of 30.5 is representable;   *)
(*   - cosines and the AOI projection in units of 1/CosScale;              *)
(*   - clear-sky GHI in W/m^2 as delivered, and in 1/GhiScale kW/m^2 after  *)
(*     the division by 1000;                                               *)
(*   - energies in units of 1/EnergyScale kWh;                             *)
(*   - the potential as an exact fraction in lowest terms.                 *)
(* The year of hourly timestamps is scaled down to HoursPerMonth hours per *)
(* calendar month; an hour not listed by the supplier's answer is a night  *)
(* hour (sun below the horizon, GHI 0).                                    *)
(***************************************************************************)
EXTENDS Integers, Sequences, FiniteSets, TLC

----------------------------------------------------------------------------
(* Fixed-point arithmetic *)

AngleScale == 2
Deg(n) == n * AngleScale
FullTurn == Deg(360)
CosScale == 1000000
GhiScale == 2
EnergyScale == 100000

Abs(x) == IF x < 0 THEN -x ELSE x
Max(a, b) == IF a >= b THEN a ELSE b
Min(a, b) == IF a <= b THEN a ELSE b

\* CosTab[k + 1] = cos(k / AngleScale degrees) * CosScale, k = 0 .. Deg(90)
CosTab ==
  <<
     1000000, 999962, 999848, 999657, 999391, 999048, 998630, 998135,
     997564, 996917, 996195, 995396, 994522, 993572, 992546, 991445,
     990268, 989016, 987688, 986286, 984808, 983255, 981627, 979925,
     978148, 976296, 974370, 972370, 970296, 968148, 965926, 963630,
     961262, 958820, 956305, 953717, 951057, 948324, 945519, 942641,
     939693, 936672, 933580, 930418, 927184, 923880, 920505, 917060,
     913545, 909961, 906308, 902585, 898794, 894934, 891007, 887011,
     882948, 878817, 874620, 870356, 866025, 861629, 857167, 852640,
     848048, 843391, 838671, 833886, 829038, 824126, 819152, 814116,
     809017, 803857, 798636, 793353, 788011, 782608, 777146, 771625,
     766044, 760406, 754710, 748956, 743145, 737277, 731354, 725374,
     719340, 713250, 707107, 700909, 694658, 688355, 681998, 675590,
     669131, 662620, 656059, 649448, 642788, 636078, 629320, 622515,
     615661, 608761, 601815, 594823, 587785, 580703, 573576, 566406,
     559193, 551937, 544639, 537300, 529919, 522499, 515038, 507538,
     500000, 492424, 484810, 477159, 469472, 461749, 453990, 446198,
     438371, 430511, 422618, 414693, 406737, 398749, 390731, 382683,
     374607, 366501, 358368, 350207, 342020, 333807, 325568, 317305,
     309017, 300706, 292372, 284015, 275637, 267238, 258819, 250380,
     241922, 233445, 224951, 216440, 207912, 199368, 190809, 182236,
     173648, 165048, 156434, 147809, 139173, 130526, 121869, 113203,
     104528, 95846, 87156, 78459, 69756, 61049, 52336, 43619,
     34899, 26177, 17452, 8727, 0
  >>

\* np.cos(np.radians(a)) for any angle a
CosFix(a) ==
  LET r == a % FullTurn
      m == IF r > Deg(180) THEN FullTurn - r ELSE r
  IN  IF m > Deg(90) THEN -CosTab[(Deg(180) - m) + 1] ELSE CosTab[m + 1]

\* np.sin(np.radians(a))
SinFix(a) == CosFix(a - Deg(90))

\* the product of two numbers of scale CosScale, at scale CosScale
MulFix(a, b) ==
  LET x == Abs(a)
      y == Abs(b)
      p == (x * (y \div 1000) + (x * (y % 1000)) \div 1000) \div 1000
  IN  IF (a < 0) # (b < 0) THEN -p ELSE p

RECURSIVE Gcd(_, _)
Gcd(a, b) == IF b = 0 THEN a ELSE Gcd(b, a % b)

\* the double n / d, kept exact
Ratio(n, d) ==
  LET g == Gcd(Abs(n), Abs(d))
      s == IF d < 0 THEN -1 ELSE 1
  IN  [num |-> s * (n \div g), den |-> s * (d \div g)]

\* a double rounded to a whole number, halves to the even neighbour (numpy round)
RoundHalfEven(x, unit) ==
  LET q == x \div unit
      r == x % unit
  IN  IF 2 * r > unit \/ (2 * r = unit /\ q % 2 = 1) THEN q + 1 ELSE q

----------------------------------------------------------------------------
(* Program constants and input domains *)

MaxTilt == 90
tilts == 0 .. MaxTilt
LossPct == 18
MonthsPerYear == 12

HoursPerMonth == 1

Hours == 1 .. MonthsPerYear * HoursPerMonth
FirstHour(m) == (m - 1) * HoursPerMonth + 1
LastHour(m) == m * HoursPerMonth
Months == 1 .. MonthsPerYear

\* strftime("%B") and strftime("%b") of the month ends / month starts of 2025
MonthName ==
  << "January", "February", "March", "April", "May", "June", "July", "August",
     "September", "October", "November", "December" >>
MonthShort ==
  << "Jan", "Feb", "Mar", "Apr", "May", "Jun", "Jul", "Aug", "Sep", "Oct", "Nov", "Dec" >>

\* An azimuth argument: None, a number (or a string float() parses), a blank or
\* unparseable string, or a negative double too small to survive the addition
\* of 360.0 (such as -1e-20).
AzNone == [kind |-> "none", val |-> 0]
AzNum(v) == [kind |-> "num", val |-> v]
AzBlank == [kind |-> "blank", val |-> 0]
AzJunk == [kind |-> "junk", val |-> 0]
AzTinyNeg == [kind |-> "tiny_neg", val |-> 0]

\* raw (latitude, longitude) pairs as entered or clicked
Locations ==
  { <<Deg(50), Deg(30)>>, <<Deg(-10), Deg(200)>>, <<0, Deg(180)>>,
    <<Deg(120), Deg(-200)>> }
Powers == { 0, 10 }
TiltArgs == { 0, Deg(30) + 1, Deg(45), Deg(90) }
SliderTilts == { t \in TiltArgs : t % AngleScale = 0 /\ t >= 0 /\ t <= Deg(90) }
AzimuthArgs ==
  { AzNone, AzBlank, AzJunk, AzTinyNeg,
    AzNum(Deg(-90)), AzNum(Deg(180)), AzNum(Deg(360)), AzNum(Deg(400)) }
SliderAzimuths == { 0, Deg(180), Deg(360) }

\* One hour of the supplier's answer: apparent zenith and azimuth of the sun and
\* the clear-sky GHI in W/m^2.
Night == [apparent_zenith |-> Deg(120), azimuth |-> 0, ghi |-> 0]
Lit(z, a, g) == [apparent_zenith |-> z, azimuth |-> a, ghi |-> g]
Year(lit) == [h \in Hours |-> IF h \in DOMAIN lit THEN lit[h] ELSE Night]

\* Answers the supplier may give: a two-season year (high summer sun in the
\* south, low winter sun in the south-east), a year whose only daylight falls
\* between two grid tilts, and a dark year with a slightly negative clear-sky
\* value.
Envs ==
  { Year(LastHour(6) :> Lit(Deg(27), Deg(180), 1000)
           @@ FirstHour(12) :> Lit(Deg(74), Deg(135), 500)),
    Year(FirstHour(3) :> Lit(Deg(30) + 1, Deg(180), 1000)),
    Year(FirstHour(1) :> Lit(Deg(89), Deg(180), -1)) }

----------------------------------------------------------------------------
(* Helpers of app.py and utils/base_model.py *)

clamp_lat(lat) == Max(Deg(-90), Min(Deg(90), lat))

wrap_lon(lon) == ((lon + Deg(180)) % FullTurn) - Deg(180)

\* float(az) raises ValueError on a string that is no number
FloatRaises(az) == az.kind \in {"blank", "junk"}

\* az % 360.0 on doubles: the remainder takes the sign of 360.0 by adding 360.0 to
\* a negative fmod result, and -1e-20 + 360.0 rounds to 360.0
normalize_azimuth_deg(az) ==
  IF az.kind = "tiny_neg" THEN FullTurn ELSE az.val % FullTurn

\* (variant: the equator itself counted as southern)
optimal_equator_facing_azimuth_strict(lat) == IF lat > 0 THEN Deg(180) ELSE 0

\* 180.0 if float(latitude) >= 0.0 else 0.0
optimal_equator_facing_azimuth(lat) == IF lat >= 0 THEN Deg(180) ELSE 0

\* the time index, the sun positions and the clipped GHI in kW/m^2
prepare_base(env) ==
  [ times |-> [h \in Hours |-> (h - 1) \div HoursPerMonth + 1],
    solar_position |->
      [h \in Hours |-> [apparent_zenith |-> env[h].apparent_zenith,
                        azimuth |-> env[h].azimuth]],
    ghi_kw |-> [h \in Hours |-> (Max(env[h].ghi, 0) * GhiScale) \div 1000] ]

\* cos(AOI) as pvlib's irradiance.aoi and np.cos give it back: the dot product of
\* the panel normal and the sun vector, clipped to [-1, 1]
aoi_projection(surface_tilt, surface_azimuth, solar_zenith, solar_azimuth) ==
  LET p == MulFix(CosFix(surface_tilt), CosFix(solar_zenith))
           + MulFix(MulFix(SinFix(surface_tilt), SinFix(solar_zenith)),
                    CosFix(solar_azimuth - surface_azimuth))
  IN  Max(-CosScale, Min(CosScale, p))

\* (variant: the negative cosines left in)
clip_cos_aoi_none(c) == c

\* cos_aoi[cos_aoi < 0] = 0
clip_cos_aoi(c) == IF c < 0 THEN 0 ELSE c

\* poa = ghi_kw * cos_aoi * (1 - system_losses); hourly_energy = poa * power
\* (a product with a zero factor is 0 and is not multiplied out)
hourly_energy(base, system_power_kw, surface_tilt, surface_azimuth, h) ==
  IF base.ghi_kw[h] = 0 \/ system_power_kw = 0 THEN 0
  ELSE LET cos_aoi == clip_cos_aoi(
                        aoi_projection(surface_tilt, surface_azimuth,
                                       base.solar_position[h].apparent_zenith,
                                       base.solar_position[h].azimuth))
       IN  (base.ghi_kw[h] * cos_aoi * (100 - LossPct) * system_power_kw)
             \div ((GhiScale * CosScale * 100) \div EnergyScale)

\* series[lo] + ... + series[hi], added in halves
RECURSIVE SumHours(_, _, _)
SumHours(series, lo, hi) ==
  IF lo > hi THEN 0
  ELSE IF lo = hi THEN series[lo]
  ELSE LET mid == (lo + hi) \div 2
       IN  SumHours(series, lo, mid) + SumHours(series, mid + 1, hi)

\* the column label f"tilt_{t}" and the integer .str.extract(r"(\d+)") reads back
column_label(t) == <<"tilt_", t>>
extract_int(label) == label[2]

\* row.idxmax(): the columns are visited from the first to the last and a
\* column replaces the running maximum only when it is larger, so the label of
\* the first column holding the row's maximum is returned.
\* (variant: a later column that equals the maximum replaces it)
idxmax_step_last_wins(best, t, v) ==
  IF v >= best.value THEN [column |-> t, value |-> v] ELSE best

idxmax_step(best, t, v) ==
  IF v > best.value THEN [column |-> t, value |-> v] ELSE best

\* The columns lo..hi in order, entered with the running maximum: the left half
\* first, then the right half entered with the left half's result (the test on
\* left only fixes that order of evaluation).
RECURSIVE idxmax_scan(_, _, _, _)
RECURSIVE idxmax_rest(_, _, _, _)
idxmax_scan(row, lo, hi, best) ==
  IF lo = hi THEN idxmax_step(best, lo, row[lo])
  ELSE idxmax_rest(row, (lo + hi) \div 2, hi, idxmax_scan(row, lo, (lo + hi) \div 2, best))
idxmax_rest(row, mid, hi, left) ==
  IF left.column <= mid THEN idxmax_scan(row, mid + 1, hi, left) ELSE left

idxmax_first(row, first) ==
  column_label(idxmax_scan(row, 1, MaxTilt, [column |-> 0, value |-> first]).column)
idxmax(row) == idxmax_first(row, row[0])

\* (variant: if energy >= best_energy)
annual_step_last_wins(best, t, energy) ==
  IF energy >= best.best_energy
  THEN [best_tilt |-> t, best_energy |-> energy]
  ELSE best

\* the body of the annual loop: if energy > best_energy, take this tilt
annual_step(best, t, energy) ==
  IF energy > best.best_energy
  THEN [best_tilt |-> t, best_energy |-> energy]
  ELSE best

\* the annual loop over the tilts lo..hi in order, entered with the running best
\* (left half first, as above)
RECURSIVE annual_scan(_, _, _, _)
RECURSIVE annual_rest(_, _, _, _)
annual_scan(annual, lo, hi, best) ==
  IF lo = hi THEN annual_step(best, lo, annual[lo])
  ELSE annual_rest(annual, (lo + hi) \div 2, hi,
                   annual_scan(annual, lo, (lo + hi) \div 2, best))
annual_rest(annual, mid, hi, left) ==
  IF left.best_tilt <= mid THEN annual_scan(annual, mid + 1, hi, left) ELSE left

\* hourly_energy_df[f"tilt_{t}"]: the hourly energy series of grid tilt t
df_energy(base, system_power_kw, surface_azimuth, t) ==
  [h \in Hours |-> hourly_energy(base, system_power_kw, Deg(t), surface_azimuth, h)]

\* (variant: each monthly bin labelled with the month that follows it)
monthly_best_tilts_next_label(base, system_power_kw, surface_azimuth) ==
  [m \in Months |->
     [ Month |-> MonthName[(m % MonthsPerYear) + 1],
       Best_Tilt_deg |->
         extract_int(idxmax([t \in tilts |->
            SumHours(df_energy(base, system_power_kw, surface_azimuth, t),
                     FirstHour(m), LastHour(m))])) ]]

\* monthly_sum.idxmax(axis=1).str.extract(r"(\d+)").astype(int)
\* with the column "Month" added
monthly_best_tilts(base, system_power_kw, surface_azimuth) ==
  [m \in Months |->
     [ Month |-> MonthName[m],
       Best_Tilt_deg |->
         extract_int(idxmax([t \in tilts |->
            SumHours(df_energy(base, system_power_kw, surface_azimuth, t),
                     FirstHour(m), LastHour(m))])) ]]

\* (variant: the annual loop starts at tilt 1)
annual_best_from_one(base, system_power_kw, surface_azimuth) ==
  annual_scan([t \in tilts |->
                 SumHours(df_energy(base, system_power_kw, surface_azimuth, t),
                          1, LastHour(MonthsPerYear))],
              1, MaxTilt, [best_tilt |-> -1, best_energy |-> -EnergyScale])

\* the annual loop: best_tilt = None (here -1), best_energy = -1.0, and each
\* tilt's energy is projected and summed again
annual_best(base, system_power_kw, surface_azimuth) ==
  annual_scan([t \in tilts |->
                 SumHours(df_energy(base, system_power_kw, surface_azimuth, t),
                          1, LastHour(MonthsPerYear))],
              0, MaxTilt, [best_tilt |-> -1, best_energy |-> -EnergyScale])

\* the user's tilt at this azimuth
hourly_user_energy(base, system_power_kw, user_tilt, surface_azimuth) ==
  [h \in Hours |-> hourly_energy(base, system_power_kw, user_tilt, surface_azimuth, h)]

\* monthly_df / monthly_opt_df: the monthly sums rounded to whole kWh
monthly_table(series) ==
  [m \in Months |->
     [ Month |-> MonthName[m],
       Energy_kWh |->
         RoundHalfEven(SumHours(series, FirstHour(m), LastHour(m)), EnergyScale) ]]

\* the dictionary _compute_for_azimuth returns, given the annual loop's result;
\* int(best_tilt) raises TypeError when best_tilt is None
compute_result(base, system_power_kw, user_tilt, surface_azimuth, scan) ==
  [ monthly_df |->
      monthly_table(hourly_user_energy(base, system_power_kw, user_tilt, surface_azimuth)),
    monthly_opt_df |->
      IF scan.best_tilt = -1 THEN << >>
      ELSE monthly_table(df_energy(base, system_power_kw, surface_azimuth, scan.best_tilt)),
    monthly_best |-> monthly_best_tilts(base, system_power_kw, surface_azimuth),
    annual_energy |->
      SumHours(hourly_user_energy(base, system_power_kw, user_tilt, surface_azimuth),
               1, LastHour(MonthsPerYear)),
    annual_optimal_energy |-> scan.best_energy,
    annual_optimal_tilt |-> scan.best_tilt,
    surface_azimuth |-> surface_azimuth ]

compute_for_azimuth(base, system_power_kw, user_tilt, surface_azimuth) ==
  compute_result(base, system_power_kw, user_tilt, surface_azimuth,
                 annual_best(base, system_power_kw, surface_azimuth))

\* (variant: the potential clamped to a minimum of 0)
potential_clamped(annual_kwh_optimal, annual_kwh_user) ==
  IF annual_kwh_user # 0
  THEN Ratio(Max(0, (annual_kwh_optimal - annual_kwh_user) * 100), annual_kwh_user)
  ELSE Ratio(0, 1)

\* potential_pct = 0.0, replaced when annual_kwh_user != 0
potential(annual_kwh_optimal, annual_kwh_user) ==
  IF annual_kwh_user # 0
  THEN Ratio((annual_kwh_optimal - annual_kwh_user) * 100, annual_kwh_user)
  ELSE Ratio(0, 1)

----------------------------------------------------------------------------
(* One request: the dashboard (or any caller) calls run_for_ui *)

VARIABLES
  pc,                 \* position in the request
  origin,             \* who called run_for_ui: "app" or "direct"
  raw,                \* latitude and longitude as entered, before the dashboard's clean-up
  latitude, longitude, system_power_kw, user_tilt, user_azimuth,   \* run_for_ui's arguments
  supplier,           \* the Location handed to the solar-position / clear-sky supplier
  fetches,            \* calls of the supplier in this request
  base,               \* times, solar_position, ghi_kw
  optimal_azimuth, user_azimuth_used, user_az_note,
  res_user, res_sys,
  aoi_calls,          \* the sweeps run so far, each with its calls of irradiance.aoi
  annual_kwh_user, optimal_angle, annual_kwh_optimal,
  potential_pct,
  monthly_chart_df, tilt_by_month_df, recommendations,
  pdf_bytes,          \* "None" or "bytes"
  error               \* the exception that ended the request, if any

vars ==
  << pc, origin, raw, latitude, longitude, system_power_kw, user_tilt, user_azimuth,
     supplier, fetches, base, optimal_azimuth, user_azimuth_used, user_az_note,
     res_user, res_sys, aoi_calls, annual_kwh_user, optimal_angle, annual_kwh_optimal,
     potential_pct, monthly_chart_df, tilt_by_month_df, recommendations, pdf_bytes,
     error >>

args == << latitude, longitude, system_power_kw, user_tilt, user_azimuth >>
env_vars == << supplier, fetches, base >>
azimuth_vars == << optimal_azimuth, user_azimuth_used, user_az_note >>
result_vars == << annual_kwh_user, optimal_angle, annual_kwh_optimal, potential_pct >>
table_vars == << monthly_chart_df, tilt_by_month_df, recommendations >>

NoBase == prepare_base(Year(<< >>))
NoRes ==
  [ monthly_df |-> << >>, monthly_opt_df |-> << >>, monthly_best |-> << >>,
    annual_energy |-> 0, annual_optimal_energy |-> 0, annual_optimal_tilt |-> -1,
    surface_azimuth |-> 0 ]

Init ==
  /\ pc = "idle"
  /\ origin = "none"
  /\ raw = << 0, 0 >>
  /\ latitude = 0 /\ longitude = 0 /\ system_power_kw = 0 /\ user_tilt = 0
  /\ user_azimuth = AzNone
  /\ supplier = << >>
  /\ fetches = 0
  /\ base = NoBase
  /\ optimal_azimuth = 0 /\ user_azimuth_used = 0 /\ user_az_note = "none"
  /\ res_user = NoRes /\ res_sys = NoRes
  /\ aoi_calls = << >>
  /\ annual_kwh_user = 0 /\ optimal_angle = -1 /\ annual_kwh_optimal = 0
  /\ potential_pct = Ratio(0, 1)
  /\ monthly_chart_df = << >> /\ tilt_by_month_df = << >> /\ recommendations = << >>
  /\ pdf_bytes = "None"
  /\ error = "none"

\* app.py: the session's coordinates are clamped and wrapped, the azimuth is None
\* under "auto" and the slider's value otherwise, and Calculate calls run_for_ui
AppCalculate ==
  /\ pc = "idle"
  /\ \E loc \in Locations, p \in Powers, t \in SliderTilts,
        auto_azimuth \in BOOLEAN, az_slider \in SliderAzimuths :
       /\ raw' = loc
       /\ latitude' = clamp_lat(loc[1])
       /\ longitude' = wrap_lon(loc[2])
       /\ system_power_kw' = p
       /\ user_tilt' = t
       /\ user_azimuth' = IF auto_azimuth THEN AzNone ELSE AzNum(az_slider)
  /\ origin' = "app"
  /\ pc' = "called"
  /\ UNCHANGED << env_vars, azimuth_vars, res_user, res_sys, result_vars, table_vars,
                  pdf_bytes, error, aoi_calls >>

\* run_for_ui called by any other caller, with its arguments as they come
DirectCall ==
  /\ pc = "idle"
  /\ \E loc \in Locations, p \in Powers, t \in TiltArgs, az \in AzimuthArgs :
       /\ raw' = loc
       /\ latitude' = loc[1]
       /\ longitude' = loc[2]
       /\ system_power_kw' = p
       /\ user_tilt' = t
       /\ user_azimuth' = az
  /\ origin' = "direct"
  /\ pc' = "called"
  /\ UNCHANGED << env_vars, azimuth_vars, res_user, res_sys, result_vars, table_vars,
                  pdf_bytes, error, aoi_calls >>

\* _prepare_base: Location(latitude, longitude), one solar-position and one
\* clear-sky query
PrepareBase ==
  /\ pc = "called"
  /\ \E env \in Envs : base' = prepare_base(env)
  /\ supplier' = << latitude, longitude >>
  /\ fetches' = fetches + 1
  /\ pc' = "prepared"
  /\ UNCHANGED << origin, raw, args, azimuth_vars, res_user, res_sys, result_vars,
                  table_vars, pdf_bytes, error, aoi_calls >>

\* the supplier fails: the exception leaves run_for_ui
SupplierFails ==
  /\ pc = "called"
  /\ supplier' = << latitude, longitude >>
  /\ fetches' = fetches + 1
  /\ error' = "SupplierError"
  /\ pc' = "raised"
  /\ UNCHANGED << origin, raw, args, base, azimuth_vars, res_user, res_sys, result_vars,
                  table_vars, pdf_bytes, aoi_calls >>

\* the system ideal azimuth and the user azimuth used
ResolveAzimuth ==
  /\ pc = "prepared"
  /\ optimal_azimuth' = optimal_equator_facing_azimuth(latitude)
  /\ IF user_azimuth.kind = "none"
     THEN /\ user_azimuth_used' = optimal_equator_facing_azimuth(latitude)
          /\ user_az_note' = "defaulted"
          /\ pc' = "resolved"
          /\ error' = error
     ELSE IF FloatRaises(user_azimuth)
     THEN /\ error' = "ValueError"
          /\ pc' = "raised"
          /\ UNCHANGED << user_azimuth_used, user_az_note >>
     ELSE /\ user_azimuth_used' = normalize_azimuth_deg(user_azimuth)
          /\ user_az_note' = "provided"
          /\ pc' = "resolved"
          /\ error' = error
  /\ UNCHANGED << origin, raw, args, env_vars, res_user, res_sys, result_vars,
                  table_vars, pdf_bytes, aoi_calls >>

\* calls of irradiance.aoi per grid tilt in the monthly loop
monthly_loop_aoi_calls == [t \in tilts |-> 1]

\* (variant: the annual loop reads the monthly loop's series, no projection of its own)
annual_loop_aoi_calls_none == [t \in tilts |-> 0]

\* calls of irradiance.aoi per grid tilt in the annual loop
annual_loop_aoi_calls == [t \in tilts |-> 1]

\* what one call of _compute_for_azimuth projects: each grid tilt in the monthly
\* loop and again in the annual loop, then the user's tilt; the monthly sums are
\* taken from the monthly loop's series, the annual sums from the annual loop's
sweep_aoi_calls(surface_azimuth) ==
  [ surface_azimuth |-> surface_azimuth,
    grid |-> [t \in tilts |-> monthly_loop_aoi_calls[t] + annual_loop_aoi_calls[t]],
    user |-> 1,
    monthly_sums_from |-> "monthly loop",
    annual_sums_from |-> "annual loop" ]

\* the user scenario
ComputeUser ==
  /\ pc = "resolved"
  /\ res_user' = compute_for_azimuth(base, system_power_kw, user_tilt, user_azimuth_used)
  /\ IF res_user'.annual_optimal_tilt = -1
     THEN /\ error' = "TypeError"
          /\ pc' = "raised"
          /\ UNCHANGED annual_kwh_user
     ELSE /\ annual_kwh_user' = res_user'.annual_energy
          /\ pc' = "user_done"
          /\ error' = error
  /\ aoi_calls' = Append(aoi_calls, sweep_aoi_calls(user_azimuth_used))
  /\ UNCHANGED << origin, raw, args, env_vars, azimuth_vars, res_sys,
                  optimal_angle, annual_kwh_optimal, potential_pct, table_vars, pdf_bytes >>

\* the system ideal scenario with the environment fetched again for its sweep
ComputeSystem_refetch ==
  /\ pc = "user_done"
  /\ \E env \in Envs : base' = prepare_base(env)
  /\ fetches' = fetches + 1
  /\ res_sys' = IF user_azimuth_used = optimal_azimuth
                 THEN res_user
                 ELSE compute_for_azimuth(base', system_power_kw, user_tilt, optimal_azimuth)
  /\ IF res_sys'.annual_optimal_tilt = -1
     THEN /\ error' = "TypeError"
          /\ pc' = "raised"
          /\ UNCHANGED << optimal_angle, annual_kwh_optimal >>
     ELSE /\ optimal_angle' = res_sys'.annual_optimal_tilt
          /\ annual_kwh_optimal' = res_sys'.annual_optimal_energy
          /\ pc' = "sys_done"
          /\ error' = error
  /\ aoi_calls' = IF user_azimuth_used = optimal_azimuth
                  THEN aoi_calls
                  ELSE Append(aoi_calls, sweep_aoi_calls(optimal_azimuth))
  /\ UNCHANGED << origin, raw, args, supplier, azimuth_vars, res_user,
                  annual_kwh_user, potential_pct, table_vars, pdf_bytes >>

\* the system ideal scenario taken from the user's sweep whatever its azimuth
ComputeSystem_always_reuse ==
  /\ pc = "user_done"
  /\ res_sys' = res_user
  /\ IF res_sys'.annual_optimal_tilt = -1
     THEN /\ error' = "TypeError"
          /\ pc' = "raised"
          /\ UNCHANGED << optimal_angle, annual_kwh_optimal >>
     ELSE /\ optimal_angle' = res_sys'.annual_optimal_tilt
          /\ annual_kwh_optimal' = res_sys'.annual_optimal_energy
          /\ pc' = "sys_done"
          /\ error' = error
  /\ UNCHANGED << origin, raw, args, env_vars, azimuth_vars, res_user, aoi_calls,
                  annual_kwh_user, potential_pct, table_vars, pdf_bytes >>

\* the system ideal scenario: the user's result again when the azimuths are equal
ComputeSystem ==
  /\ pc = "user_done"
  /\ res_sys' = IF user_azimuth_used = optimal_azimuth
                 THEN res_user
                 ELSE compute_for_azimuth(base, system_power_kw, user_tilt, optimal_azimuth)
  /\ IF res_sys'.annual_optimal_tilt = -1
     THEN /\ error' = "TypeError"
          /\ pc' = "raised"
          /\ UNCHANGED << optimal_angle, annual_kwh_optimal >>
     ELSE /\ optimal_angle' = res_sys'.annual_optimal_tilt
          /\ annual_kwh_optimal' = res_sys'.annual_optimal_energy
          /\ pc' = "sys_done"
          /\ error' = error
  /\ aoi_calls' = IF user_azimuth_used = optimal_azimuth
                  THEN aoi_calls
                  ELSE Append(aoi_calls, sweep_aoi_calls(optimal_azimuth))
  /\ UNCHANGED << origin, raw, args, env_vars, azimuth_vars, res_user,
                  annual_kwh_user, potential_pct, table_vars, pdf_bytes >>

\* the potential
Potential ==
  /\ pc = "sys_done"
  /\ potential_pct' = potential(annual_kwh_optimal, annual_kwh_user)
  /\ pc' = "potential"
  /\ UNCHANGED << origin, raw, args, env_vars, azimuth_vars, res_user, res_sys,
                  annual_kwh_user, optimal_angle, annual_kwh_optimal, table_vars,
                  pdf_bytes, error, aoi_calls >>

\* (variant: the list without its closing note)
recommendation_list_without_note ==
  << "hemisphere and system optimal azimuth", "user azimuth note and azimuth used",
     "your generation", "optimal generation", "estimated potential" >>

\* the six recommendation strings, by what each one reports
recommendation_list ==
  << "hemisphere and system optimal azimuth", "user azimuth note and azimuth used",
     "your generation", "optimal generation", "estimated potential", "baseline model note" >>

\* the monthly chart table, the tilt-by-month table and the recommendations
Assemble ==
  /\ pc = "potential"
  /\ monthly_chart_df' =
       [m \in Months |->
          [ month |-> MonthShort[m],
            kwh_user |-> res_user.monthly_df[m].Energy_kWh,
            kwh_optimal |-> res_sys.monthly_opt_df[m].Energy_kWh ]]
  /\ tilt_by_month_df' =
       [m \in Months |->
          [ Month |-> res_sys.monthly_best[m].Month,
            BestTiltDeg |-> res_sys.monthly_best[m].Best_Tilt_deg ]]
  /\ recommendations' = recommendation_list
  /\ pc' = "assembled"
  /\ UNCHANGED << origin, raw, args, env_vars, azimuth_vars, res_user, res_sys,
                  result_vars, pdf_bytes, error, aoi_calls >>

\* _build_pdf_bytes returns the report and run_for_ui returns its UIOutput
PdfBuilt ==
  /\ pc = "assembled"
  /\ pdf_bytes' = "bytes"
  /\ pc' = "returned"
  /\ UNCHANGED << origin, raw, args, env_vars, azimuth_vars, res_user, res_sys,
                  result_vars, table_vars, error, aoi_calls >>

\* _build_pdf_bytes raises and nothing catches it: the exception leaves run_for_ui
PdfFails_uncaught ==
  /\ pc = "assembled"
  /\ error' = "Exception"
  /\ pc' = "raised"
  /\ UNCHANGED << origin, raw, args, env_vars, azimuth_vars, res_user, res_sys,
                  result_vars, table_vars, pdf_bytes, aoi_calls >>

\* _build_pdf_bytes raises: the exception is caught, pdf_bytes stays None
PdfFails ==
  /\ pc = "assembled"
  /\ pdf_bytes' = "None"
  /\ pc' = "returned"
  /\ UNCHANGED << origin, raw, args, env_vars, azimuth_vars, res_user, res_sys,
                  result_vars, table_vars, error, aoi_calls >>

\* app.py: the columns the dashboard reads from out.monthly_chart_df and from
\* out.tilt_by_month_df, in the order it reads them
chart_columns_read == << "month", "kwh_user", "month", "kwh_optimal_yearly" >>
tilt_columns_read == << "Month", "BestTiltDeg" >>

\* the columns of a table
columns(df) == DOMAIN df[1]

\* the columns among read that df lacks: df[name] raises KeyError for each
missing_columns(df, read) == { read[i] : i \in DOMAIN read } \ columns(df)

\* app.py: the dashboard renders the result of run_for_ui, the chart first and
\* the tilt tiles after it; the first missing column ends the rendering
Render ==
  /\ pc = "returned"
  /\ origin = "app"
  /\ IF missing_columns(monthly_chart_df, chart_columns_read) # { }
        \/ missing_columns(tilt_by_month_df, tilt_columns_read) # { }
     THEN /\ error' = "KeyError"
          /\ pc' = "render_failed"
     ELSE /\ error' = error
          /\ pc' = "rendered"
  /\ UNCHANGED << origin, raw, args, env_vars, azimuth_vars, res_user, res_sys,
                  result_vars, table_vars, pdf_bytes, aoi_calls >>

Next ==
  \/ AppCalculate
  \/ DirectCall
  \/ PrepareBase
  \/ SupplierFails
  \/ ResolveAzimuth
  \/ ComputeUser
  \/ ComputeSystem
  \/ Potential
  \/ Assemble
  \/ PdfBuilt
  \/ PdfFails
  \/ Render

Spec == Init /\ [][Next]_vars

----------------------------------------------------------------------------
(* Properties *)

AfterResolve == { "resolved", "user_done", "sys_done", "potential", "assembled", "returned" }
AfterSystem == { "sys_done", "potential", "assembled", "returned" }
AfterPotential == { "potential", "assembled", "returned" }

GridTilts == { Deg(t) : t \in tilts }

\* the annual energy of grid tilt t at an azimuth, from this request's environment
AnnualAt(surface_azimuth, t) ==
  SumHours(df_energy(base, system_power_kw, surface_azimuth, t), 1, LastHour(MonthsPerYear))

\* the energy of grid tilt t within month m at an azimuth
MonthlyAt(surface_azimuth, m, t) ==
  SumHours(df_energy(base, system_power_kw, surface_azimuth, t), FirstHour(m), LastHour(m))

\* v is no more than best, and less than best when its tilt t comes before chosen
FirstMaximum(t, v, chosen, best) == v <= best /\ (t < chosen => v < best)

\* the projection of hour h on a panel, before any clipping
RawProjection(surface_tilt, surface_azimuth, h) ==
  aoi_projection(surface_tilt, surface_azimuth,
                 base.solar_position[h].apparent_zenith, base.solar_position[h].azimuth)

\* C1: whenever the user's annual energy is exactly 0 and the optimal annual
\* energy is greater than 0, the potential that run_for_ui returns is +100.0.
C1_ZeroUserPotentialIs100 ==
  (pc \in AfterPotential /\ annual_kwh_user = 0 /\ annual_kwh_optimal > 0)
    => potential_pct = Ratio(100, 1)

\* C2: when the user's annual energy is not 0, the potential is
\* (optimal - user) / user * 100 with its sign kept: negative when the user
\* out-produces the optimal configuration, never clamped to 0; (10, 10) gives
\* 0.0 and (8, 10) gives -20.0.
C2_SignedPotential ==
  /\ potential(10, 10) = Ratio(0, 1)
  /\ potential(8, 10) = Ratio(-20, 1)
  /\ (pc \in AfterPotential /\ annual_kwh_user # 0)
       => /\ potential_pct =
               Ratio((annual_kwh_optimal - annual_kwh_user) * 100, annual_kwh_user)
          /\ potential_pct.den > 0
          /\ (annual_kwh_user > annual_kwh_optimal) = (potential_pct.num < 0)
          /\ (annual_kwh_user = annual_kwh_optimal) = (potential_pct.num = 0)

\* a returned result in which the user's configuration out-produces the optimal one
C2_Witness ==
  /\ pc = "returned"
  /\ annual_kwh_optimal > 0
  /\ annual_kwh_user > annual_kwh_optimal
  /\ potential_pct.num < 0

\* C3 as stated: whenever the effective user azimuth equals the ideal azimuth,
\* for any real user tilt, the optimal annual energy is at least the user's.
C3_SameAzimuthDominance ==
  (pc \in AfterSystem /\ user_azimuth_used = optimal_azimuth)
    => annual_kwh_optimal >= annual_kwh_user

\* C3 amended: whenever the effective user azimuth equals the ideal azimuth and
\* the user tilt is one of the whole-degree grid tilts 0..90, the optimal annual
\* energy is at least the user's.
C3_GridTiltDominance ==
  (pc \in AfterSystem /\ user_azimuth_used = optimal_azimuth /\ user_tilt \in GridTilts)
    => annual_kwh_optimal >= annual_kwh_user

\* a same-azimuth request with a grid tilt that produces energy
C3_Witness ==
  /\ pc = "returned"
  /\ user_azimuth_used = optimal_azimuth
  /\ user_tilt \in GridTilts
  /\ annual_kwh_user > 0
  /\ annual_kwh_optimal >= annual_kwh_user

\* C4: optimal_angle is a whole tilt in 0..90 whose annual energy under the ideal
\* azimuth is the maximum over all tilts 0..90, the lowest such tilt when several
\* reach it; annual_kwh_optimal is that tilt's annual sum; the scan never ends
\* without a chosen tilt, also when every tilt yields 0.
C4_AnnualOptimum ==
  /\ error # "TypeError"
  /\ pc \in AfterSystem => optimal_angle \in tilts
  /\ pc = "sys_done" =>
       /\ annual_kwh_optimal = AnnualAt(optimal_azimuth, optimal_angle)
       /\ \A t \in tilts :
            FirstMaximum(t, AnnualAt(optimal_azimuth, t), optimal_angle, annual_kwh_optimal)

\* the scan has chosen a tilt inside the grid in a year with daylight
C4_Witness ==
  /\ pc = "sys_done"
  /\ annual_kwh_optimal > 0
  /\ optimal_angle > 0 /\ optimal_angle < MaxTilt
  /\ annual_kwh_optimal = AnnualAt(optimal_azimuth, optimal_angle)

\* the scan has chosen tilt 0 in a year in which every tilt yields 0
C4_DarkYearReached ==
  /\ pc = "sys_done"
  /\ system_power_kw > 0
  /\ annual_kwh_optimal = 0 /\ optimal_angle = 0

\* C5: for each calendar month, the tilt reported in tilt_by_month is the tilt in
\* 0..90 that maximizes the energy of that month alone under the ideal azimuth
\* (the lowest on ties, also when the month yields 0 at every tilt); it is not
\* tied to the annual-best tilt.
C5_MonthlyOptimum ==
  pc = "assembled" =>
    \A m \in Months :
      /\ tilt_by_month_df[m].BestTiltDeg \in tilts
      /\ \A t \in tilts :
           FirstMaximum(t, MonthlyAt(optimal_azimuth, m, t),
                        tilt_by_month_df[m].BestTiltDeg,
                        MonthlyAt(optimal_azimuth, m, tilt_by_month_df[m].BestTiltDeg))

\* an environment in which a month with daylight has a best tilt other than the
\* annual-best tilt, next to a dark month that reports tilt 0
C5_Witness ==
  /\ pc = "assembled"
  /\ \E m \in Months :
       /\ MonthlyAt(optimal_azimuth, m, tilt_by_month_df[m].BestTiltDeg) > 0
       /\ tilt_by_month_df[m].BestTiltDeg # optimal_angle
  /\ \E m \in Months :
       /\ MonthlyAt(optimal_azimuth, m, tilt_by_month_df[m].BestTiltDeg) = 0
       /\ tilt_by_month_df[m].BestTiltDeg = 0

\* C6: for every tilt (each grid tilt and the user's tilt), both azimuths of the
\* request and every hour, the projected hourly energy is >= 0, and an hour whose
\* cos(AOI) is negative contributes exactly 0; annual_kwh_user and
\* annual_kwh_optimal are never negative.
C6_NonNegativeEnergy ==
  /\ annual_kwh_user >= 0
  /\ pc \in AfterSystem => annual_kwh_optimal >= 0
  /\ pc = "sys_done" =>
       \A az \in { user_azimuth_used, optimal_azimuth } :
         \A t \in GridTilts \cup { user_tilt } :
           \A h \in Hours :
             /\ hourly_energy(base, system_power_kw, t, az, h) >= 0
             /\ (base.ghi_kw[h] > 0 /\ RawProjection(t, az, h) < 0)
                  => hourly_energy(base, system_power_kw, t, az, h) = 0

\* a daylight hour behind the plane of the user's panel after the sweeps ran
C6_Witness ==
  /\ pc = "sys_done"
  /\ system_power_kw > 0
  /\ \E h \in Hours :
       /\ base.ghi_kw[h] > 0
       /\ RawProjection(user_tilt, user_azimuth_used, h) < 0
       /\ hourly_energy(base, system_power_kw, user_tilt, user_azimuth_used, h) = 0

\* C7: when the user azimuth is absent, blank or unparseable, the engine treats
\* it as absent: no exception is raised, the effective azimuth is the ideal one
\* and the azimuth counts as not provided.
C7_MalformedAzimuthIsAbsent ==
  user_azimuth.kind \in { "none", "blank", "junk" } =>
    /\ error # "ValueError"
    /\ pc \in AfterResolve =>
         (user_azimuth_used = optimal_azimuth /\ user_az_note = "defaulted")

\* C8: optimal_azimuth is 180.0 when latitude >= 0 (0 included) and 0.0 when
\* latitude < 0; with no user azimuth, user_azimuth_used equals optimal_azimuth.
C8_HemisphereDefault ==
  pc \in AfterResolve =>
    /\ latitude >= 0 => optimal_azimuth = Deg(180)
    /\ latitude < 0 => optimal_azimuth = 0
    /\ user_azimuth = AzNone => user_azimuth_used = optimal_azimuth

\* latitude -10 with no azimuth: ideal 0.0 and effective 0.0
C8_Witness ==
  /\ pc = "returned"
  /\ user_azimuth = AzNone
  /\ latitude = Deg(-10) /\ optimal_azimuth = 0 /\ user_azimuth_used = 0

\* latitude 0 with no azimuth: ideal 180.0 and effective 180.0
C8_EquatorReached ==
  /\ pc = "returned"
  /\ user_azimuth = AzNone
  /\ latitude = 0 /\ optimal_azimuth = Deg(180) /\ user_azimuth_used = Deg(180)

\* C9: every numeric user azimuth is reduced modulo 360, so user_azimuth_used and
\* optimal_azimuth always lie in [0, 360).
C9_AzimuthInRange ==
  pc \in AfterResolve =>
    /\ 0 <= user_azimuth_used /\ user_azimuth_used < FullTurn
    /\ 0 <= optimal_azimuth /\ optimal_azimuth < FullTurn

\* C10: for any raw latitude and longitude handed to the engine, the Location that
\* reaches the supplier is the latitude clamped to [-90, 90] and the longitude
\* wrapped into [-180, 180).
C10_CoordinateSafety ==
  fetches > 0 =>
    /\ supplier = << clamp_lat(raw[1]), wrap_lon(raw[2]) >>
    /\ Deg(-90) <= supplier[1] /\ supplier[1] <= Deg(90)
    /\ Deg(-180) <= supplier[2] /\ supplier[2] < Deg(180)

\* C11: in one call of run_for_ui the hourly environment is obtained from the
\* supplier exactly once, before any tilt is evaluated, and the user-azimuth
\* sweep and the ideal-azimuth sweep are both computed from that one series;
\* it is never fetched again per tilt or per azimuth.
C11_EnvironmentFetchedOnce ==
  /\ fetches <= 1
  /\ pc \in { "idle", "called" } => fetches = 0 /\ res_user = NoRes /\ res_sys = NoRes
  /\ pc \notin { "idle", "called" } => fetches = 1
  /\ (res_user # NoRes \/ res_sys # NoRes) => fetches = 1
  /\ pc = "user_done" =>
       res_user = compute_for_azimuth(base, system_power_kw, user_tilt, user_azimuth_used)
  /\ pc = "sys_done" =>
       res_sys = compute_for_azimuth(base, system_power_kw, user_tilt, optimal_azimuth)

\* a returned result whose two sweeps ran at different azimuths on one fetch
C11_Witness ==
  /\ pc = "returned"
  /\ fetches = 1
  /\ user_azimuth_used # optimal_azimuth
  /\ res_user # NoRes /\ res_sys # NoRes /\ res_sys # res_user
  /\ annual_kwh_optimal > 0

\* the fields of UIOutput other than pdf_bytes
output_fields ==
  << optimal_angle, optimal_azimuth, annual_kwh_user, annual_kwh_optimal, potential_pct,
     monthly_chart_df, tilt_by_month_df, recommendations, user_azimuth_used >>

\* C12: whether _build_pdf_bytes succeeds or raises, the step that ends PDF
\* generation returns a result: no exception leaves run_for_ui, pdf_bytes is
\* the report or None, and every other field of the result is what it was
\* before PDF generation, hence the same in both cases.
C12_PdfFailureIsolated ==
  [][ (pc = "assembled" /\ pc' # "assembled")
        => /\ pc' = "returned"
           /\ error' = "none"
           /\ pdf_bytes' \in { "None", "bytes" }
           /\ UNCHANGED output_fields ]_vars

\* a result returned after a failed PDF generation, with all its other fields set
C12_Witness ==
  /\ pc = "returned"
  /\ pdf_bytes = "None"
  /\ error = "none"
  /\ optimal_angle \in tilts
  /\ annual_kwh_optimal > 0
  /\ Len(monthly_chart_df) = MonthsPerYear
  /\ Len(tilt_by_month_df) = MonthsPerYear
  /\ Len(recommendations) > 0

\* the calendar months a label names, for the full and for the short month names
MonthsNamed(label) == { m \in Months : MonthName[m] = label }
MonthsShortNamed(label) == { m \in Months : MonthShort[m] = label }

\* C13: in every successful run the monthly chart table and the tilt-by-month
\* table each hold exactly 12 records, in the order January to December, and
\* the i-th record of each table names calendar month i.
C13_TwelveMonthsInOrder ==
  pc \in { "assembled", "returned" } =>
    /\ DOMAIN monthly_chart_df = 1 .. 12
    /\ DOMAIN tilt_by_month_df = 1 .. 12
    /\ \A i \in 1 .. 12 :
         /\ MonthsShortNamed(monthly_chart_df[i].month) = { i }
         /\ MonthsNamed(tilt_by_month_df[i].Month) = { i }

\* a returned result whose months differ in energy and in best tilt
C13_Witness ==
  /\ pc = "returned"
  /\ Len(monthly_chart_df) = 12 /\ Len(tilt_by_month_df) = 12
  /\ monthly_chart_df[1].month = "Jan" /\ monthly_chart_df[12].month = "Dec"
  /\ tilt_by_month_df[1].Month = "January" /\ tilt_by_month_df[12].Month = "December"
  /\ \E i, j \in 1 .. 12 :
       /\ monthly_chart_df[i].kwh_optimal # monthly_chart_df[j].kwh_optimal
       /\ tilt_by_month_df[i].BestTiltDeg # tilt_by_month_df[j].BestTiltDeg

GridProjections(sweep) == SumHours([h \in 1 .. (MaxTilt + 1) |-> sweep.grid[h - 1]], 1, MaxTilt + 1)

OptimalOutputsAre(ref) ==
  /\ optimal_angle = ref.annual_optimal_tilt
  /\ annual_kwh_optimal = ref.annual_optimal_energy
  /\ optimal_azimuth = ref.surface_azimuth
  /\ \A m \in Months :
       /\ monthly_chart_df[m].kwh_optimal = ref.monthly_opt_df[m].Energy_kWh
       /\ tilt_by_month_df[m].Month = ref.monthly_best[m].Month
       /\ tilt_by_month_df[m].BestTiltDeg = ref.monthly_best[m].Best_Tilt_deg

\* C16: the optimal outputs of a returned result (optimal_angle,
\* optimal_azimuth, annual_kwh_optimal, the kwh_optimal column, the
\* tilt-by-month table) are those of a sweep at the ideal azimuth of the
\* latitude with a fixed tilt of 0 in place of the user's: they are determined
\* by the location, its environment and the system power alone, so two calls
\* that differ only in user_tilt or user_azimuth return the same ones, also
\* when the user's sweep is reused as the ideal-azimuth sweep.
C16_OptimalIndependentOfUser ==
  pc = "returned" =>
    OptimalOutputsAre(compute_for_azimuth(base, system_power_kw, 0,
                                          optimal_equator_facing_azimuth(latitude)))

\* a returned result whose ideal-azimuth sweep is the user's sweep, run with
\* a user tilt other than 0
C16_Witness ==
  /\ pc = "returned"
  /\ user_azimuth.kind = "num"
  /\ user_azimuth_used = optimal_azimuth
  /\ Len(aoi_calls) = 1
  /\ user_tilt # 0
  /\ annual_kwh_user # annual_kwh_optimal
  /\ annual_kwh_optimal > 0

\* a returned result whose user sweep ran at another azimuth than the ideal one
C16_SeparateSweepReached ==
  /\ pc = "returned"
  /\ user_azimuth_used # optimal_azimuth
  /\ res_user.annual_optimal_tilt # res_sys.annual_optimal_tilt
  /\ annual_kwh_optimal > 0

\* C17: every column the dashboard reads from the monthly chart table and from
\* the tilt-by-month table is a column run_for_ui produces under that name, so
\* rendering a successfully computed result never fails on a missing field.
C17_FieldAgreement ==
  (origin = "app" /\ pc \in { "rendered", "render_failed" }) =>
    /\ missing_columns(monthly_chart_df, chart_columns_read) = { }
    /\ missing_columns(tilt_by_month_df, tilt_columns_read) = { }
    /\ pc = "rendered"
    /\ error = "none"

====
